---- MODULE Spec2Model ----
(***************************************************************************)
(* Model of ci/clang-formater/clang-format-wrapper.py: the driver that     *)
(* runs clang-format over a list of files, sequentially or in a            *)
(* multiprocessing pool, and folds the per-file results into one exit      *)
(* status.                                                                 *)
(***************************************************************************)
EXTENDS Integers, Sequences, FiniteSets, TLC

\* ------------------------------------------------------------------ bounds
MaxFiles == 2      \* longest discovered file list
MaxJobs  == 2      \* largest value of the -j option
CpuCount == 1      \* multiprocessing.cpu_count() of the machine

\* --------------------------------------------------------- class ExitStatus
SUCCESS == 0
DIFF    == 1
TROUBLE == 2

VARIABLES
    versionOK,  \* environment: `clang-format --version` exits with status 0
    isdir,      \* environment: os.path.isdir(args.workplace)
    found,      \* environment: the files the directory walk would keep
    args,       \* the parsed command line: in_place, dry_run, quiet, j
    pc,         \* position of main()
    retcode,    \* main's local retcode (0 until the preflight check assigns it)
    retval,     \* what main() returned: Running, NoValue or Value(n)
    exitcode,   \* the exit code sys.exit(main()) gave the process: << >> until then, <<n>> after
    files,      \* main's local files
    njobs,      \* main's local njobs
    pool,       \* main's local pool: "unset", "none", "open", "terminated", "joined"
    itDone,     \* N = 1: the generator `it` has finished
    nextTask,   \* index of the next file the generator / the pool's task queue hands out
    worker,     \* N > 1: worker -> index of the file it is invoking, 0 when idle
    outq,       \* N > 1: results put by the workers and not yet taken by next(it)
    started,    \* files whose invocation has begun
    completed,  \* files whose invocation has returned or raised
    observed,   \* files whose result next(it) has handed to the loop, in order
    invoked,    \* the file of every call of the wrapper, in the order the calls began
    spawned,    \* files for which subprocess.run was called
    rewritten,  \* files the formatter rewrote on disk
    output      \* what has been written to stdout / stderr, in order

vars == <<versionOK, isdir, found, args, pc, retcode, retval, exitcode, files, njobs, pool,
          itDone, nextTask, worker, outq, started, completed, observed, invoked,
          spawned, rewritten, output>>

\* ------------------------------------------------------------ environment
\* What one file of the tree does when it is processed:
\*   read     : what io.open / readlines does
\*   starts   : subprocess.run manages to start the formatter
\*   decodes  : the formatter's output decodes as utf-8
\*   rc       : the formatter's exit status
\*   original : the lines of the file
\*   stdout   : the lines the formatter prints
\*   stderr   : the lines the formatter writes to stderr
Unformatted == <<"int a ;">>
Formatted   == <<"int a;">>
NoLines     == << >>
Warning     == <<"warning">>

ReadKinds == {"ok", "missing", "denied", "decode"}

FileEnvs ==
    { e \in [read : ReadKinds, starts : BOOLEAN, decodes : BOOLEAN, rc : {0, 1},
             original : {Unformatted}, stdout : {Unformatted, Formatted, NoLines},
             stderr : {NoLines, Warning}] :
        /\ (e.read # "ok") => (e.starts /\ e.decodes /\ e.rc = 0
                                /\ e.stdout = Unformatted /\ e.stderr = NoLines)
        /\ (~e.starts) => (e.decodes /\ e.rc = 0 /\ e.stdout = NoLines /\ e.stderr = NoLines)
        /\ (~e.decodes) => (e.rc = 0 /\ e.stdout = NoLines /\ e.stderr = NoLines)
        /\ (e.rc # 0) => e.stdout = NoLines
        /\ (e.starts /\ e.decodes /\ e.rc = 0) => e.stdout # NoLines }

FileLists == UNION { [1..n -> FileEnvs] : n \in 0..MaxFiles }

Args == [in_place : BOOLEAN, dry_run : BOOLEAN, quiet : BOOLEAN, j : 0..MaxJobs]

\* A dry run never starts the formatter, so what the formatter would do with a
\* readable file is no part of the run: it is kept at one value, a file that
\* needs reformatting.
NeedsFormatting(e) ==
    /\ e.starts /\ e.decodes /\ e.rc = 0
    /\ e.stdout = Formatted /\ e.stderr = NoLines

\* ------------------------------------------------------- pure functions
Min(a, b) == IF a < b THEN a ELSE b

\* check_clang_version
check_clang_version(ok) == IF ok THEN SUCCESS ELSE TROUBLE

\* list_files: the kept files of the walk, or nothing when path is no folder
list_files(dir, walk) == IF dir THEN walk ELSE << >>

\* make_diff: difflib.unified_diff of two line lists, empty when they are equal
make_diff(file, original, reformatted) ==
    IF original = reformatted
    THEN << >>
    ELSE <<  <<"---", file>>, <<"+++", file>>, <<"@@">> >>
         \o [i \in 1..Len(original) |-> <<"-", original[i]>>]
         \o [i \in 1..Len(reformatted) |-> <<"+", reformatted[i]>>]

Raise(exc, errs) == [exc |-> exc, outs |-> << >>, errs |-> errs]
Return(outs, errs) == [exc |-> "none", outs |-> outs, errs |-> errs]

\* The exception io.open / readlines raises for each kind of read failure
ReadException(read) ==
    CASE read = "missing" -> "IOError"              \* FileNotFoundError
      [] read = "denied"  -> "IOError"              \* PermissionError
      [] read = "decode"  -> "UnicodeDecodeError"   \* a ValueError, no IOError
      [] OTHER            -> "none"

\* run_clang_format_diff without the `if args.dry_run:` return
run_clang_format_diff_NoDryRun(a, file, e) ==
    IF ReadException(e.read) = "IOError" THEN Raise("DiffError", NoLines)
    ELSE IF ReadException(e.read) # "none" THEN Raise(ReadException(e.read), NoLines)
    ELSE IF ~e.starts THEN Raise("DiffError", NoLines)
    ELSE IF ~e.decodes THEN Raise("UnicodeDecodeError", NoLines)
    ELSE IF e.rc # 0 THEN Raise("DiffError", e.stderr)
    ELSE IF a.in_place THEN Return(<< >>, e.stderr)
    ELSE Return(make_diff(file, e.original, e.stdout), e.stderr)

\* run_clang_format_diff without `if args.in_place: return [], errs`
run_clang_format_diff_NoInPlace(a, file, e) ==
    IF ReadException(e.read) = "IOError" THEN Raise("DiffError", NoLines)
    ELSE IF ReadException(e.read) # "none" THEN Raise(ReadException(e.read), NoLines)
    ELSE IF a.dry_run THEN Return(<< >>, << >>)
    ELSE IF ~e.starts THEN Raise("DiffError", NoLines)
    ELSE IF ~e.decodes THEN Raise("UnicodeDecodeError", NoLines)
    ELSE IF e.rc # 0 THEN Raise("DiffError", e.stderr)
    ELSE Return(make_diff(file, e.original, e.stdout), e.stderr)

\* run_clang_format_diff
run_clang_format_diff(a, file, e) ==
    IF ReadException(e.read) = "IOError" THEN Raise("DiffError", NoLines)
    ELSE IF ReadException(e.read) # "none" THEN Raise(ReadException(e.read), NoLines)
    ELSE IF a.dry_run THEN Return(<< >>, << >>)
    ELSE IF ~e.starts THEN Raise("DiffError", NoLines)
    ELSE IF ~e.decodes THEN Raise("UnicodeDecodeError", NoLines)
    ELSE IF e.rc # 0 THEN Raise("DiffError", e.stderr)
    ELSE IF a.in_place THEN Return(<< >>, e.stderr)
    ELSE Return(make_diff(file, e.original, e.stdout), e.stderr)

\* run_clang_format_diff reaches subprocess.run: the file was read and it is no
\* dry run
Spawns(a, e) == ReadException(e.read) = "none" /\ ~a.dry_run

\* The subprocess was started with '-i' and the formatter, ending with status
\* 0, wrote a content that differs from the original
Rewrites(a, e) ==
    /\ Spawns(a, e)
    /\ a.in_place
    /\ e.starts /\ e.decodes /\ e.rc = 0
    /\ e.stdout # e.original

\* What main() hands to sys.exit: nothing (a bare `return`) or an integer;
\* Running while main() has not returned
Running == [returned |-> FALSE, none |-> FALSE, value |-> SUCCESS]
NoValue == [returned |-> TRUE, none |-> TRUE, value |-> SUCCESS]
Value(n) == [returned |-> TRUE, none |-> FALSE, value |-> n]

\* sys_exit treating None like any other non-integer object: exit code 1
sys_exit_NoneIsFailure(r) == IF r.none THEN 1 ELSE r.value

\* sys.exit(main()): None exits with 0, an integer with itself
sys_exit(r) == IF r.none THEN 0 ELSE r.value

\* run_clang_format_diff_wrapper
run_clang_format_diff_wrapper(a, file, e) ==
    LET ret == run_clang_format_diff(a, file, e) IN
    IF ret.exc = "none" THEN ret
    ELSE IF ret.exc = "DiffError" THEN ret
    ELSE Raise("UnexpectedError", NoLines)

\* The result of invoking the wrapper on the f-th file of the list
Result(f) == run_clang_format_diff_wrapper(args, f, files[f])

\* ------------------------------------------------ the body of the loop
\* Report with print_diff moved before sys.stderr.writelines(errs)
Report_DiffFirst(f, r) ==
    IF r.exc = "DiffError"
    THEN << [file |-> f, kind |-> "trouble"] >>
         \o (IF r.errs # << >> THEN << [file |-> f, kind |-> "stderr"] >> ELSE << >>)
    ELSE IF r.exc = "UnexpectedError"
    THEN << [file |-> f, kind |-> "trouble"], [file |-> f, kind |-> "traceback"] >>
    ELSE (IF r.outs # << >> THEN << [file |-> f, kind |-> "diff"] >> ELSE << >>)
         \o (IF r.errs # << >> THEN << [file |-> f, kind |-> "stderr"] >> ELSE << >>)

\* What one iteration of the loop writes for result r of file f
Report(f, r) ==
    IF r.exc = "DiffError"
    THEN << [file |-> f, kind |-> "trouble"] >>
         \o (IF r.errs # << >> THEN << [file |-> f, kind |-> "stderr"] >> ELSE << >>)
    ELSE IF r.exc = "UnexpectedError"
    THEN << [file |-> f, kind |-> "trouble"], [file |-> f, kind |-> "traceback"] >>
    ELSE (IF r.errs # << >> THEN << [file |-> f, kind |-> "stderr"] >> ELSE << >>)
         \o (IF r.outs # << >> THEN << [file |-> f, kind |-> "diff"] >> ELSE << >>)

\* NextRetcode with the DiffError branch forgetting `retcode = ExitStatus.TROUBLE`
NextRetcode_DiffErrorIgnored(rc, r) ==
    IF r.exc = "DiffError" THEN rc
    ELSE IF r.exc = "UnexpectedError" THEN TROUBLE
    ELSE IF r.outs = << >> THEN rc
    ELSE IF rc = SUCCESS THEN DIFF
    ELSE rc

\* NextRetcode without the guard `if retcode == ExitStatus.SUCCESS`
NextRetcode_Overwrite(rc, r) ==
    IF r.exc = "DiffError" THEN TROUBLE
    ELSE IF r.exc = "UnexpectedError" THEN TROUBLE
    ELSE IF r.outs = << >> THEN rc
    ELSE DIFF

\* NextRetcode with the guard `if retcode == ExitStatus.SUCCESS` also put on the
\* DiffError branch
NextRetcode_FirstWins(rc, r) ==
    IF r.exc = "DiffError" THEN (IF rc = SUCCESS THEN TROUBLE ELSE rc)
    ELSE IF r.exc = "UnexpectedError" THEN TROUBLE
    ELSE IF r.outs = << >> THEN rc
    ELSE IF rc = SUCCESS THEN DIFF
    ELSE rc

\* The value of retcode after one iteration of the loop on result r
NextRetcode(rc, r) ==
    IF r.exc = "DiffError" THEN TROUBLE
    ELSE IF r.exc = "UnexpectedError" THEN TROUBLE
    ELSE IF r.outs = << >> THEN rc
    ELSE IF rc = SUCCESS THEN DIFF
    ELSE rc

\* Where the loop goes after result r: again, or out by the break
NextPc(r) ==
    IF r.exc = "UnexpectedError"
    THEN (IF pool = "open" THEN "terminate" ELSE "join")
    ELSE "loop"

\* ------------------------------------------------------------------ Init
Init ==
    /\ versionOK \in BOOLEAN
    /\ isdir \in BOOLEAN
    /\ found \in FileLists
    /\ (~isdir) => found = << >>
    /\ args \in Args
    /\ args.dry_run => \A i \in 1..Len(found) :
            found[i].read = "ok" => NeedsFormatting(found[i])
    /\ pc = "preflight"
    /\ retcode = SUCCESS
    /\ retval = Running
    /\ exitcode = << >>
    /\ files = << >>
    /\ njobs = 0
    /\ pool = "unset"
    /\ itDone = FALSE
    /\ nextTask = 1
    /\ worker = << >>
    /\ outq = << >>
    /\ started = {}
    /\ completed = {}
    /\ observed = << >>
    /\ invoked = << >>
    /\ spawned = {}
    /\ rewritten = {}
    /\ output = << >>

\* --------------------------------------------------------------- actions
\* Preflight without `if retcode != ExitStatus.SUCCESS: return retcode`
Preflight_NoReturn ==
    /\ pc = "preflight"
    /\ retcode' = check_clang_version(versionOK)
    /\ pc' = "discover"
    /\ output' = IF versionOK THEN output
                 ELSE Append(output, [file |-> 0, kind |-> "trouble"])
    /\ UNCHANGED <<versionOK, isdir, found, args, retval, exitcode, files, njobs, pool,
                   itDone, nextTask, worker, outq, started, completed, observed,
                   invoked, spawned, rewritten>>

\* main: `retcode = check_clang_version(...)` and
\* `if retcode != ExitStatus.SUCCESS: return retcode`
Preflight ==
    /\ pc = "preflight"
    /\ LET rc == check_clang_version(versionOK)
       IN /\ retcode' = rc
          /\ IF rc # SUCCESS
             THEN /\ pc' = "done"
                  /\ retval' = Value(rc)
                  /\ exitcode' = << sys_exit(Value(rc)) >>
                  /\ output' = Append(output, [file |-> 0, kind |-> "trouble"])
             ELSE /\ pc' = "discover"
                  /\ UNCHANGED <<retval, exitcode, output>>
    /\ UNCHANGED <<versionOK, isdir, found, args, files, njobs, pool,
                   itDone, nextTask, worker, outq, started, completed, observed,
                   invoked, spawned, rewritten>>

\* Discover without `if not files: return`
Discover_NoEmptyCheck ==
    /\ pc = "discover"
    /\ LET fs == list_files(isdir, found)
           n0 == IF args.j = 0 THEN CpuCount + 1 ELSE args.j
           n  == Min(Len(fs), n0)
       IN /\ files' = fs
          /\ output' = IF isdir THEN output
                       ELSE Append(output, [file |-> 0, kind |-> "trouble"])
          /\ pc' = "loop"
          /\ njobs' = n
          /\ pool' = IF n = 1 THEN "none" ELSE "open"
          /\ worker' = IF n = 1 THEN << >> ELSE [w \in 1..n |-> 0]
          /\ UNCHANGED <<retval, exitcode>>
    /\ UNCHANGED <<versionOK, isdir, found, args, retcode, itDone, nextTask,
                   outq, started, completed, observed, invoked, spawned, rewritten>>

\* Discover without `njobs = min(len(files), njobs)`
Discover_NoClamp ==
    /\ pc = "discover"
    /\ LET fs == list_files(isdir, found)
           n  == IF args.j = 0 THEN CpuCount + 1 ELSE args.j
       IN /\ files' = fs
          /\ output' = IF isdir THEN output
                       ELSE Append(output, [file |-> 0, kind |-> "trouble"])
          /\ IF fs = << >>
             THEN /\ pc' = "done"
                  /\ retval' = NoValue
                  /\ exitcode' = << sys_exit(NoValue) >>
                  /\ UNCHANGED <<njobs, pool, worker>>
             ELSE /\ pc' = "loop"
                  /\ njobs' = n
                  /\ pool' = IF n = 1 THEN "none" ELSE "open"
                  /\ worker' = IF n = 1 THEN << >> ELSE [w \in 1..n |-> 0]
                  /\ UNCHANGED <<retval, exitcode>>
    /\ UNCHANGED <<versionOK, isdir, found, args, retcode, itDone, nextTask,
                   outq, started, completed, observed, invoked, spawned, rewritten>>

\* main: list_files, `if not files: return`, njobs, the generator or the pool
Discover ==
    /\ pc = "discover"
    /\ LET fs == list_files(isdir, found)
           n0 == IF args.j = 0 THEN CpuCount + 1 ELSE args.j
           n  == Min(Len(fs), n0)
       IN /\ files' = fs
          /\ output' = IF isdir THEN output
                       ELSE Append(output, [file |-> 0, kind |-> "trouble"])
          /\ IF fs = << >>
             THEN /\ pc' = "done"
                  /\ retval' = NoValue
                  /\ exitcode' = << sys_exit(NoValue) >>
                  /\ UNCHANGED <<njobs, pool, worker>>
             ELSE /\ pc' = "loop"
                  /\ njobs' = n
                  /\ pool' = IF n = 1 THEN "none" ELSE "open"
                  /\ worker' = IF n = 1 THEN << >> ELSE [w \in 1..n |-> 0]
                  /\ UNCHANGED <<retval, exitcode>>
    /\ UNCHANGED <<versionOK, isdir, found, args, retcode, itDone, nextTask,
                   outq, started, completed, observed, invoked, spawned, rewritten>>

\* One iteration of the loop when njobs = 1: next(it) runs the wrapper on the
\* next file in the calling context; a generator that raised is finished.
SeqNext ==
    /\ pc = "loop"
    /\ pool = "none"
    /\ IF itDone \/ nextTask > Len(files)
       THEN /\ pc' = "join"
            /\ itDone' = TRUE
            /\ UNCHANGED <<retcode, nextTask, started, completed, observed,
                           invoked, spawned, rewritten, output>>
       ELSE LET f == nextTask
                r == Result(f)
            IN /\ nextTask' = f + 1
               /\ itDone' = (r.exc # "none")
               /\ invoked' = Append(invoked, f)
               /\ started' = started \cup {f}
               /\ spawned' = IF Spawns(args, files[f]) THEN spawned \cup {f} ELSE spawned
               /\ rewritten' = IF Rewrites(args, files[f]) THEN rewritten \cup {f}
                                ELSE rewritten
               /\ completed' = completed \cup {f}
               /\ observed' = Append(observed, f)
               /\ output' = output \o Report(f, r)
               /\ retcode' = NextRetcode(retcode, r)
               /\ pc' = NextPc(r)
    /\ UNCHANGED <<versionOK, isdir, found, args, retval, exitcode, files, njobs, pool,
                   worker, outq>>

\* WorkerStart leaving the task it took on the task queue
WorkerStart_NoAdvance(w) ==
    /\ pool = "open"
    /\ worker[w] = 0
    /\ nextTask <= Len(files)
    /\ worker' = [worker EXCEPT ![w] = nextTask]
    /\ invoked' = Append(invoked, nextTask)
    /\ started' = started \cup {nextTask}
    /\ spawned' = IF Spawns(args, files[nextTask]) THEN spawned \cup {nextTask}
                  ELSE spawned
    /\ UNCHANGED <<versionOK, isdir, found, args, pc, retcode, retval, exitcode, files,
                   njobs, pool, itDone, nextTask, outq, completed, observed, rewritten,
                   output>>

\* A pool worker takes the next task of the task queue and begins the
\* invocation: it reads the file and, unless the read failed or it is a dry
\* run, starts the formatter
WorkerStart(w) ==
    /\ pool = "open"
    /\ worker[w] = 0
    /\ nextTask <= Len(files)
    /\ worker' = [worker EXCEPT ![w] = nextTask]
    /\ invoked' = Append(invoked, nextTask)
    /\ started' = started \cup {nextTask}
    /\ spawned' = IF Spawns(args, files[nextTask]) THEN spawned \cup {nextTask}
                  ELSE spawned
    /\ nextTask' = nextTask + 1
    /\ UNCHANGED <<versionOK, isdir, found, args, pc, retcode, retval, exitcode, files,
                   njobs, pool, itDone, outq, completed, observed, rewritten, output>>

\* WorkerFinish with the worker folding its result into the run status itself
WorkerFinish_SetsStatus(w) ==
    /\ pool = "open"
    /\ worker[w] # 0
    /\ outq' = Append(outq, worker[w])
    /\ completed' = completed \cup {worker[w]}
    /\ rewritten' = IF Rewrites(args, files[worker[w]]) THEN rewritten \cup {worker[w]}
                    ELSE rewritten
    /\ retcode' = NextRetcode(retcode, Result(worker[w]))
    /\ worker' = [worker EXCEPT ![w] = 0]
    /\ UNCHANGED <<versionOK, isdir, found, args, pc, retval, exitcode, files,
                   njobs, pool, itDone, nextTask, started, observed, invoked, spawned,
                   output>>

\* A pool worker ends its invocation and puts the result on the result queue
WorkerFinish(w) ==
    /\ pool = "open"
    /\ worker[w] # 0
    /\ outq' = Append(outq, worker[w])
    /\ completed' = completed \cup {worker[w]}
    /\ rewritten' = IF Rewrites(args, files[worker[w]]) THEN rewritten \cup {worker[w]}
                    ELSE rewritten
    /\ worker' = [worker EXCEPT ![w] = 0]
    /\ UNCHANGED <<versionOK, isdir, found, args, pc, retcode, retval, exitcode, files,
                   njobs, pool, itDone, nextTask, started, observed, invoked, spawned,
                   output>>

\* PoolNext with an iterator that stops as soon as no result is waiting
PoolNext_NoWait ==
    /\ pc = "loop"
    /\ pool = "open"
    /\ IF outq = << >>
       THEN /\ pc' = "join"
            /\ UNCHANGED <<retcode, outq, observed, output>>
       ELSE LET f == Head(outq)
                r == Result(f)
            IN /\ outq' = Tail(outq)
               /\ observed' = Append(observed, f)
               /\ output' = output \o Report(f, r)
               /\ retcode' = NextRetcode(retcode, r)
               /\ pc' = NextPc(r)
    /\ UNCHANGED <<versionOK, isdir, found, args, retval, exitcode, files, njobs, pool,
                   itDone, nextTask, worker, started, completed, invoked, spawned,
                   rewritten>>

\* One iteration of the loop when njobs > 1: next(it) of imap_unordered takes
\* the oldest result of the result queue, or stops when every task has yielded
PoolNext ==
    /\ pc = "loop"
    /\ pool = "open"
    /\ IF Len(observed) = Len(files)
       THEN /\ pc' = "join"
            /\ UNCHANGED <<retcode, outq, observed, output>>
       ELSE /\ outq # << >>
            /\ LET f == Head(outq)
                   r == Result(f)
               IN /\ outq' = Tail(outq)
                  /\ observed' = Append(observed, f)
                  /\ output' = output \o Report(f, r)
                  /\ retcode' = NextRetcode(retcode, r)
                  /\ pc' = NextPc(r)
    /\ UNCHANGED <<versionOK, isdir, found, args, retval, exitcode, files, njobs, pool,
                   itDone, nextTask, worker, started, completed, invoked, spawned,
                   rewritten>>

\* Terminate without the `break` that follows pool.terminate(): the loop calls
\* next(it) again on a pool that yields nothing more
Terminate_NoBreak ==
    /\ pc = "terminate"
    /\ pool' = "terminated"
    /\ rewritten' = rewritten
    /\ worker' = [w \in DOMAIN worker |-> 0]
    /\ pc' = "loop"
    /\ UNCHANGED <<versionOK, isdir, found, args, retcode, retval, exitcode, files, njobs,
                   itDone, nextTask, outq, started, completed, observed, invoked,
                   spawned, output>>

\* pool.terminate(): the workers are killed, whatever they were doing; a
\* formatter that a killed worker had started may or may not have rewritten
\* its file
Terminate ==
    /\ pc = "terminate"
    /\ pool' = "terminated"
    /\ \E done \in SUBSET { worker[w] : w \in { v \in DOMAIN worker :
                                 worker[v] # 0 /\ Rewrites(args, files[worker[v]]) } } :
          rewritten' = rewritten \cup done
    /\ worker' = [w \in DOMAIN worker |-> 0]
    /\ pc' = "join"
    /\ UNCHANGED <<versionOK, isdir, found, args, retcode, retval, exitcode, files, njobs,
                   itDone, nextTask, outq, started, completed, observed, invoked,
                   spawned, output>>

\* main: `if pool: pool.join()` and `return retcode`, then sys.exit of it
Finish ==
    /\ pc = "join"
    /\ (pool = "open") => (nextTask > Len(files) /\ \A w \in DOMAIN worker : worker[w] = 0)
    /\ pool' = IF pool = "none" THEN "none" ELSE "joined"
    /\ retval' = Value(retcode)
    /\ exitcode' = << sys_exit(Value(retcode)) >>
    /\ pc' = "done"
    /\ UNCHANGED <<versionOK, isdir, found, args, retcode, files, njobs,
                   itDone, nextTask, worker, outq, started, completed, observed,
                   invoked, spawned, rewritten, output>>

Next ==
    \/ Preflight
    \/ Discover
    \/ SeqNext
    \/ PoolNext
    \/ \E w \in DOMAIN worker : WorkerStart(w)
    \/ \E w \in DOMAIN worker : WorkerFinish(w)
    \/ Terminate
    \/ Finish

Spec == Init /\ [][Next]_vars

\* The main process and the pool's worker processes are scheduled by the
\* operating system and every formatter invocation ends: a step that can be
\* taken is eventually taken.
FairSpec == Spec /\ WF_vars(Next)

\* ------------------------------------------------- notions the claims use
Range(s) == { s[i] : i \in 1..Len(s) }
FileIds == 1..Len(files)
PipelineRan == pool # "unset"
LoopEnded == pc \in {"join", "done"}
IsExpected(f) == Result(f).exc = "DiffError"
IsUnexpected(f) == Result(f).exc = "UnexpectedError"
IsFailure(f) == IsExpected(f) \/ IsUnexpected(f)
HasDiff(f) == Result(f).exc = "none" /\ Result(f).outs # << >>
NoUnexpectedInRun == \A f \in FileIds : ~IsUnexpected(f)
HaltObserved == \E i \in 1..Len(observed) : IsUnexpected(observed[i])
Count(s, x) == Cardinality({ i \in 1..Len(s) : s[i] = x })
Emitted(f, k) == \E i \in 1..Len(output) : output[i] = [file |-> f, kind |-> k]

\* C1: for every worker count, in a run without UnexpectedFailure in which one
\* file raises an ExpectedFailure, every other file is still invoked and
\* observed by the loop, and the run status becomes Trouble.
C1_FailureIsolation ==
    (pc = "done" /\ PipelineRan /\ NoUnexpectedInRun
        /\ \E f \in Range(observed) : IsExpected(f))
    => /\ \A g \in FileIds : g \in started /\ g \in Range(observed)
       /\ retval = Value(TROUBLE)

\* C2: when main runs the pipeline to its end, it returns Trouble if a failure
\* was observed, else DiffFound if a non-empty diff was observed, else Success.
C2_ExitStatus ==
    (pc = "done" /\ PipelineRan)
    => retval = Value(IF \E f \in Range(observed) : IsFailure(f) THEN TROUBLE
                 ELSE IF \E f \in Range(observed) : HasDiff(f) THEN DIFF
                 ELSE SUCCESS)

C2_Witness ==
    /\ pc = "done" /\ PipelineRan /\ retval = Value(TROUBLE)
    /\ \E i, j \in 1..Len(observed) :
          i < j /\ HasDiff(observed[i]) /\ IsExpected(observed[j])

\* C3: the run status only escalates: no step lowers retcode, in particular a
\* non-empty diff observed after a failure leaves Trouble in place.
C3_Monotonic == [][retcode' >= retcode]_vars

C3_Witness ==
    /\ retcode = TROUBLE
    /\ \E i, j \in 1..Len(observed) :
          i < j /\ IsExpected(observed[i]) /\ HasDiff(observed[j])

\* C4: the final exit status is the highest severity among the results
\* assigned to the files, whatever the arrival order and the worker count.
Severity(f) == IF IsFailure(f) THEN TROUBLE ELSE IF HasDiff(f) THEN DIFF ELSE SUCCESS
Worst == IF \E f \in FileIds : Severity(f) = TROUBLE THEN TROUBLE
         ELSE IF \E f \in FileIds : Severity(f) = DIFF THEN DIFF
         ELSE SUCCESS

C4_OrderIndependent == (pc = "done" /\ PipelineRan) => retval = Value(Worst)

C4_Witness ==
    /\ pc = "done" /\ njobs > 1 /\ Len(observed) = 2
    /\ observed[1] > observed[2]
    /\ Severity(observed[1]) = DIFF /\ Severity(observed[2]) = TROUBLE

\* C5: once the loop has observed an UnexpectedFailure, no task that had not
\* yet started begins execution in any worker, for N = 1 and for N > 1.
C5_HaltStopsStarts == [][HaltObserved => started' = started]_vars

\* C6: on a fail-fast halt no completed result is dropped: the outcomes the
\* loop reported are exactly those of the files whose invocation completed.
C6_NoCompletedDropped ==
    (pc = "done" /\ HaltObserved) => Range(observed) = completed

\* C7: with worker count 1 the i-th observation belongs to the i-th file, and
\* without UnexpectedFailure the observed sequence is the whole file list.
C7_SequentialOrder ==
    (PipelineRan /\ njobs = 1)
    => /\ \A i \in 1..Len(observed) : observed[i] = i
       /\ (LoopEnded /\ NoUnexpectedInRun) => Len(observed) = Len(files)

\* C8: with N > 1 and no UnexpectedFailure in the run, no file is observed
\* twice, and when the loop ends every file has been observed exactly once.
C8_ExactlyOnce ==
    (PipelineRan /\ njobs > 1 /\ NoUnexpectedInRun)
    => /\ \A f \in FileIds : Count(observed, f) <= 1
       /\ LoopEnded => \A f \in FileIds : Count(observed, f) = 1

C8_Witness ==
    /\ pc = "done" /\ njobs > 1 /\ NoUnexpectedInRun
    /\ Len(observed) = 2 /\ observed[1] = 2 /\ observed[2] = 1
    /\ IsExpected(2)

\* C9 as stated: within one file's output the stderr lines come before its
\* report, be it the diff or the trouble message.
C9_StderrBeforeReport ==
    \A i, j \in 1..Len(output) :
        (output[i].file = output[j].file /\ output[i].kind = "stderr"
            /\ output[j].kind \in {"diff", "trouble"}) => i < j

\* C9 as amended: within one file's output the stderr lines come before the
\* diff of a successful invocation, and after the trouble message of an
\* ExpectedFailure.
C9_StderrOrder ==
    \A i, j \in 1..Len(output) :
        (output[i].file = output[j].file /\ output[i].kind = "stderr")
        => /\ (output[j].kind = "diff") => i < j
           /\ (output[j].kind = "trouble") => j < i

C9_Witness ==
    \E f, g \in FileIds :
        /\ Emitted(f, "stderr") /\ Emitted(f, "diff")
        /\ Emitted(g, "stderr") /\ Emitted(g, "trouble")

\* C10: every failure to read a file's content (missing, permission denied,
\* decode error) reaches the loop as an ExpectedFailure and does not make the
\* loop stop.
C10_ReadFailureExpected ==
    \A i \in 1..Len(observed) :
        (files[observed[i]].read # "ok")
        => (IsExpected(observed[i]) /\ ~Emitted(observed[i], "traceback"))

\* C11: when the preflight version check fails, the run ends with Trouble
\* before discovery and scheduling: no file list, no pool, no file read, no
\* formatter started and no diff printed.
C11_PreflightAborts ==
    (~versionOK /\ pc # "preflight")
    => /\ pc = "done"
       /\ retval = Value(TROUBLE) /\ exitcode = <<TROUBLE>>
       /\ files = << >> /\ pool = "unset"
       /\ invoked = << >> /\ started = {} /\ spawned = {} /\ rewritten = {}
       /\ \A i \in 1..Len(output) : output[i].kind # "diff"

C11_Witness == ~versionOK /\ pc = "done" /\ isdir /\ Len(found) = 2

\* C12: in in-place mode every successful invocation yields an empty diff, no
\* diff is printed and the status never is DiffFound: the run ends with
\* Success when no failure was observed and with Trouble otherwise.
C12_InPlaceNoDiff ==
    args.in_place
    => /\ \A i \in 1..Len(output) : output[i].kind # "diff"
       /\ retcode # DIFF
       /\ \A f \in Range(observed) : Result(f).exc = "none" => Result(f).outs = << >>
       /\ (pc = "done" /\ PipelineRan)
          => retval = Value(IF \E f \in Range(observed) : IsFailure(f) THEN TROUBLE
                       ELSE SUCCESS)

C12_Witness ==
    /\ args.in_place /\ pc = "done" /\ PipelineRan
    /\ rewritten # {} /\ rewritten \subseteq Range(observed)
    /\ retval = Value(SUCCESS)

\* C13: at most N = min(number of files, job count, 0 meaning cpu count + 1)
\* invocations are in flight; with N = 1, so for every single-file run, no
\* pool exists and nothing runs outside the calling context.
InFlight == Cardinality({ w \in DOMAIN worker : worker[w] # 0 })
Configured == IF args.j = 0 THEN CpuCount + 1 ELSE args.j

C13_BoundedWorkers ==
    PipelineRan
    => /\ njobs = Min(Len(files), Configured)
       /\ InFlight <= njobs
       /\ Cardinality(DOMAIN worker) <= njobs
       /\ (njobs = 1) => (pool = "none" /\ worker = << >>)
       /\ (Len(files) = 1) => njobs = 1

C13_Witness == pool = "open" /\ njobs = 2 /\ InFlight = 2 /\ args.j = 0

\* C14: each file is processed at most once and by at most one worker: no two
\* invocations, concurrent or successive, target the same file, and a file
\* whose invocation failed is not invoked again.
C14_AtMostOnce ==
    /\ Range(invoked) \subseteq FileIds
    /\ \A f \in FileIds : Count(invoked, f) <= 1
    /\ \A v, w \in DOMAIN worker : (v # w /\ worker[v] # 0) => worker[v] # worker[w]

C14_Witness ==
    /\ pc = "done" /\ njobs > 1 /\ Len(invoked) = 2
    /\ IsExpected(invoked[1]) /\ invoked[1] \in completed
    /\ Count(observed, invoked[1]) = 1

\* C15: when the root path is no directory, the error is reported and main
\* returns before anything is scheduled: the file list is empty, no pool is
\* created and no invocation is started.
C15_DiscoveryAborts ==
    (versionOK /\ ~isdir /\ pc \notin {"preflight", "discover"})
    => /\ pc = "done"
       /\ Emitted(0, "trouble")
       /\ files = << >> /\ pool = "unset"
       /\ invoked = << >> /\ spawned = {}

C15_Witness == versionOK /\ ~isdir /\ pc = "done" /\ output # << >>

\* C16: with the quiet option no diff is written to standard output.
C16_QuietNoDiff == args.quiet => \A i \in 1..Len(output) : output[i].kind # "diff"

\* C17: in dry-run mode no formatter subprocess is started and no file is
\* rewritten, in-place mode or not; every readable file yields an empty
\* outcome and the status never is DiffFound.
C17_DryRunNoEffect ==
    args.dry_run
    => /\ spawned = {} /\ rewritten = {}
       /\ \A f \in Range(invoked) :
             files[f].read = "ok" => Result(f) = Return(<< >>, << >>)
       /\ \A i \in 1..Len(output) : output[i].kind # "diff"
       /\ retcode # DIFF
       /\ (pc = "done" /\ PipelineRan) => retval # Value(DIFF)

C17_Witness ==
    /\ args.dry_run /\ args.in_place /\ pc = "done" /\ PipelineRan
    /\ \E f \in Range(observed) : files[f].read = "ok" /\ files[f].stdout # files[f].original
    /\ retval = Value(SUCCESS)

\* C18: under fair scheduling every run terminates: the loop is left, the pool
\* join completes and main returns a finalized exit status.
Finalized ==
    /\ pc = "done"
    /\ retval.returned
    /\ exitcode \in {<<SUCCESS>>, <<DIFF>>, <<TROUBLE>>}
    /\ pool \in {"unset", "none", "joined"}

C18_Terminates == <>Finalized

C18_Witness ==
    /\ pc = "done" /\ pool = "joined" /\ HaltObserved
    /\ started # completed

\* C19: the run status is written by the loop only: a worker step leaves
\* retcode unchanged, and in the pipeline retcode changes only in a step of the
\* loop that consumes exactly one observation.
WorkerStep == pool = "open" /\ (invoked' # invoked \/ Len(outq') > Len(outq))

C19_OnlyLoopWrites ==
    [][ /\ WorkerStep => retcode' = retcode
        /\ (PipelineRan /\ retcode' # retcode)
           => (pc = "loop" /\ Len(observed') = Len(observed) + 1) ]_vars

C19_Witness == pool = "open" /\ pc = "loop" /\ retcode = TROUBLE /\ InFlight > 0

\* C20: when the preflight check passes and the discovered file list is empty
\* (also when the root path is no directory and a trouble message was
\* printed), main returns no value and the process exit code is 0.
C20_EmptyListExit ==
    (versionOK /\ pc = "done" /\ list_files(isdir, found) = << >>)
    => /\ exitcode = <<SUCCESS>>
       /\ retval = NoValue
       /\ (~isdir) => Emitted(0, "trouble")

C20_Witness ==
    /\ versionOK /\ ~isdir /\ pc = "done"
    /\ Emitted(0, "trouble") /\ exitcode = <<SUCCESS>>

====
